---- MODULE Spec2Model ----
(***************************************************************************)
(* Model of CrimeRate.py: a CSV of crime counts (one row per state, one    *)
(* column per year) is loaded, validated, melted to long form, written to  *)
(* an SQLite table, aggregated by two GROUP BY queries and plotted.        *)
(*                                                                         *)
(* Values.  A key cell (state, factor) is a string, "" standing for an     *)
(* empty CSV field (pandas NaN, SQL NULL).  A year cell is the text of the *)
(* CSV field as a sequence of characters, <<>> for an empty field.  A      *)
(* printed message and an exception message are sequences of tokens.       *)
(***************************************************************************)
EXTENDS Integers, Sequences, FiniteSets, TLC

(***************************************************************************)
(* Bounds of the model.                                                    *)
(***************************************************************************)
MaxRows == 2          \* wide rows of a table handed to reshape_data
MaxRecords == 3       \* long records of a stored table handed to the queries
MaxRequired == 2      \* length of a required-column list handed to validate_columns
MaxFileRows == 2      \* data rows of the CSV file read by main
MaxRuns == 2          \* executions of main against the same file and database

(***************************************************************************)
(* Configuration of main.                                                  *)
(***************************************************************************)
table_name == "crimes_table"
id_column == "State/UT"
factor_column == "socio-economic factors"
year_columns == <<"2019", "2020", "2021">>
MemoryDb == ":memory:"
FileDb == "crimes.db"

Range(s) == {s[i] : i \in DOMAIN s}

SeqsUpTo(S, n) == UNION {[1..k -> S] : k \in 0..n}

\* The columns main requires: [id_column, factor_column] + year_columns.
main_required_columns == <<id_column, factor_column>> \o year_columns

(***************************************************************************)
(* Values of the model's inputs.                                           *)
(***************************************************************************)
NULL == ""
States == {"A", "B"}
Factors == {"f", NULL}
Digits == {"0", "1", "2", "3", "4", "5", "6", "7", "8", "9"}
\* an empty field, the number 15, and a text that starts like a number
CellTexts == {<<>>, <<"1", "5">>, <<"5", "x">>}
Counts == {-1, 2}
ExtraColumn == "Area"

\* SQLite's default ordering of the key values of the model: NULL first,
\* then text by its bytes (digits before upper case before lower case).
Collation == <<NULL, "2019", "2020", "2021", "A", "B", "f", "g">>

Rank(v) == CHOOSE i \in DOMAIN Collation : Collation[i] = v

(***************************************************************************)
(* Tables.  A wide row maps column names to cells; a frame is a set of     *)
(* column names and a sequence of rows.                                    *)
(***************************************************************************)
WideRow(state, factor, cells) ==
    [c \in Range(main_required_columns) |->
        IF c = id_column THEN state
        ELSE IF c = factor_column THEN factor
        ELSE cells[CHOOSE i \in DOMAIN year_columns : year_columns[i] = c]]

LongRecord(state, factor, year, count) ==
    (id_column :> state) @@ (factor_column :> factor)
        @@ ("Year" :> year) @@ ("Crime_Count" :> count)

Frame(columns, rows) == [columns |-> columns, rows |-> rows]

NoFrame == Frame({}, <<>>)

\* ----------------------------------------------------------------------
\* load_csv
\* ----------------------------------------------------------------------
FileNotFound(path) ==
    [type |-> "FileNotFoundError", msg |-> <<"File not found at: ", path>>]

\* os.path.exists fails -> FileNotFoundError; otherwise the frame of the file.
load_csv(file) ==
    IF ~file.exists
    THEN [raised |-> TRUE, exc |-> FileNotFound(file.path), value |-> NoFrame]
    ELSE [raised |-> FALSE, exc |-> FileNotFound(file.path),
          value |-> Frame(file.columns, file.rows)]

\* ----------------------------------------------------------------------
\* validate_columns
\* ----------------------------------------------------------------------
\* ', '.join(names)
RECURSIVE Join(_)
Join(names) ==
    IF names = <<>> THEN <<>>
    ELSE IF Len(names) = 1 THEN names
    ELSE <<Head(names), ", ">> \o Join(Tail(names))

FirstOnly(names) == IF names = <<>> THEN <<>> ELSE <<Head(names)>>

MissingColumns(df, required_columns) ==
    SelectSeq(required_columns, LAMBDA col : col \notin df.columns)

validate_columns_first_only(df, required_columns) ==
    LET missing_columns == MissingColumns(df, required_columns)
    IN  [raised |-> missing_columns # <<>>,
         exc |-> [type |-> "ValueError",
                  msg |-> <<"Missing required columns: ">>
                              \o Join(FirstOnly(missing_columns))]]

validate_columns(df, required_columns) ==
    LET missing_columns == MissingColumns(df, required_columns)
    IN  [raised |-> missing_columns # <<>>,
         exc |-> [type |-> "ValueError",
                  msg |-> <<"Missing required columns: ">> \o Join(missing_columns)]]

\* ----------------------------------------------------------------------
\* reshape_data
\* ----------------------------------------------------------------------
DigitValue(d) ==
    CASE d = "0" -> 0 [] d = "1" -> 1 [] d = "2" -> 2 [] d = "3" -> 3 [] d = "4" -> 4
      [] d = "5" -> 5 [] d = "6" -> 6 [] d = "7" -> 7 [] d = "8" -> 8 [] d = "9" -> 9

RECURSIVE Decimal(_)
Decimal(text) ==
    IF text = <<>> THEN 0
    ELSE Decimal(SubSeq(text, 1, Len(text) - 1)) * 10 + DigitValue(text[Len(text)])

\* pd.to_numeric(errors='coerce') of one cell: <<n>> for the text of a
\* number, <<>> (NaN) for any other text.
to_numeric(text) ==
    IF text # <<>> /\ \A i \in DOMAIN text : text[i] \in Digits
    THEN <<Decimal(text)>>
    ELSE <<>>

\* pd.melt: one row per year column and wide row, year columns outermost.
RECURSIVE MeltRows(_, _, _, _)
MeltRows(rows, id, factor, year) ==
    IF rows = <<>> THEN <<>>
    ELSE <<LongRecord(Head(rows)[id], Head(rows)[factor], year, Head(rows)[year])>>
             \o MeltRows(Tail(rows), id, factor, year)

RECURSIVE melt(_, _, _, _)
melt(df, id, factor, years) ==
    IF years = <<>> THEN <<>>
    ELSE MeltRows(df.rows, id, factor, Head(years)) \o melt(df, id, factor, Tail(years))

\* dropna(subset=['Crime_Count']): an empty cell is NaN.
dropna(records) == SelectSeq(records, LAMBDA r : r["Crime_Count"] # <<>>)

Coerce(records) ==
    [i \in DOMAIN records |->
        [records[i] EXCEPT !["Crime_Count"] = to_numeric(records[i]["Crime_Count"])]]

Unwrap(records) ==
    [i \in DOMAIN records |->
        [records[i] EXCEPT !["Crime_Count"] = records[i]["Crime_Count"][1]]]

FillZero(records) ==
    [i \in DOMAIN records |->
        [records[i] EXCEPT !["Crime_Count"] =
            IF records[i]["Crime_Count"] = <<>> THEN 0 ELSE records[i]["Crime_Count"][1]]]

\* The second dropna replaced by a fill with zero.
reshape_data_fillna(df, id, factor, years) ==
    FillZero(Coerce(dropna(melt(df, id, factor, years))))

reshape_data(df, id, factor, years) ==
    Unwrap(dropna(Coerce(dropna(melt(df, id, factor, years)))))

\* ----------------------------------------------------------------------
\* save_to_sqlite
\* ----------------------------------------------------------------------
Table(rows) == [exists |-> TRUE, rows |-> rows]

NoTable == [exists |-> FALSE, rows |-> <<>>]

\* sq.connect(db_name): ":memory:" is a fresh, empty database on every
\* connection; a file name is the database left on disk by earlier runs.
connect(name, stored) == IF name = MemoryDb THEN NoTable ELSE stored

\* if_exists="append"
to_sql_append(existing, rows) ==
    IF existing.exists THEN Table(existing.rows \o rows) ELSE Table(rows)

\* df.to_sql(table_name, conn, if_exists="replace", index=False)
to_sql(existing, rows) == Table(rows)

save_to_sqlite(rows, name, stored) == to_sql(connect(name, stored), rows)

\* ----------------------------------------------------------------------
\* fetch_data_by_state, fetch_data_by_factors
\* ----------------------------------------------------------------------
RECURSIVE SUM(_)
SUM(records) ==
    IF records = <<>> THEN 0 ELSE Head(records)["Crime_Count"] + SUM(Tail(records))

\* a < b in the lexicographic order of two equally long sequences of ranks
LexLess(a, b) ==
    \E i \in DOMAIN a :
        /\ a[i] < b[i]
        /\ \A j \in 1..(i - 1) : a[j] = b[j]

\* ORDER BY: the rows of S, ascending by their sort keys key[r] (the keys
\* of the rows of S are distinct).
OrderBy(S, key) ==
    [i \in 1..Cardinality(S) |->
        CHOOSE r \in S : Cardinality({q \in S : LexLess(key[q], key[r])}) = i - 1]

StateKey(r) == <<Rank(r.State), Rank(r.Year)>>

YearFirstKey(r) == <<Rank(r.Year), Rank(r.State)>>

FactorKey(r) == <<Rank(r.State), Rank(r.Factor), Rank(r.Year)>>

\* GROUP BY "State/UT", Year with SUM(Crime_Count); NULL keys form a group.
GroupByState(rows) ==
    {[State |-> k[1], Year |-> k[2],
      Crime_Count |-> SUM(SelectSeq(rows,
                        LAMBDA r : r[id_column] = k[1] /\ r["Year"] = k[2]))] :
        k \in {<<r[id_column], r["Year"]>> : r \in Range(rows)}}

\* GROUP BY "State/UT", "socio-economic factors", Year with SUM(Crime_Count)
GroupByFactors(rows) ==
    {[State |-> k[1], Factor |-> k[2], Year |-> k[3],
      Crime_Count |-> SUM(SelectSeq(rows,
                        LAMBDA r : /\ r[id_column] = k[1]
                                   /\ r[factor_column] = k[2]
                                   /\ r["Year"] = k[3]))] :
        k \in {<<r[id_column], r[factor_column], r["Year"]>> : r \in Range(rows)}}

\* ORDER BY Year, "State/UT"
fetch_data_by_state_year_first(rows) ==
    OrderBy(GroupByState(rows), [r \in GroupByState(rows) |-> YearFirstKey(r)])

fetch_data_by_state(rows) ==
    OrderBy(GroupByState(rows), [r \in GroupByState(rows) |-> StateKey(r)])

\* WHERE "socio-economic factors" IS NOT NULL
fetch_data_by_factors_not_null(rows) ==
    LET groups == GroupByFactors(SelectSeq(rows, LAMBDA r : r[factor_column] # NULL))
    IN  OrderBy(groups, [r \in groups |-> FactorKey(r)])

fetch_data_by_factors(rows) ==
    OrderBy(GroupByFactors(rows), [r \in GroupByFactors(rows) |-> FactorKey(r)])

\* ----------------------------------------------------------------------
\* plot_data_by_state, plot_bar_data_by_factors
\* ----------------------------------------------------------------------
\* a test that never finds a frame empty
empty_never(data) == FALSE

\* DataFrame.empty
empty(data) == data = <<>>

\* One line per state: x is the year column, y the value column.
plot_data_by_state(data, state_column, year_column, value_column) ==
    [kind |-> "line", x |-> year_column, y |-> value_column, hue |-> state_column,
     marks |-> [i \in DOMAIN data |->
                   [x |-> data[i][year_column], y |-> data[i][value_column],
                    hue |-> data[i][state_column]]]]

\* sns.barplot(data=data, x=state_column, y=factor_column, hue=factor_column)
plot_bar_data_by_factors(data, factor_column_, state_column, year_column, value_column) ==
    [kind |-> "bar", x |-> state_column, y |-> factor_column_, hue |-> factor_column_,
     marks |-> [i \in DOMAIN data |->
                   [x |-> data[i][state_column], y |-> data[i][factor_column_],
                    hue |-> data[i][factor_column_]]]]

\* ----------------------------------------------------------------------
\* main
\* ----------------------------------------------------------------------
csv_path == "en.csv"

VARIABLES
    file,              \* the CSV file at csv_path
    db_name,           \* the storage target
    stored,            \* table table_name of the database db_name
    required_columns,  \* the list handed to validate_columns
    run,               \* number of this execution of main
    pc,                \* the call main is about to make
    df, reshaped_df, state_data, factor_data,   \* main's local tables
    conn,              \* the connection opened by save_to_sqlite
    charts,            \* the figures shown by plt.show(), in order
    printed,           \* the lines printed, in order
    error,             \* the exception raised in the try block
    exit,              \* how main ended
    executed,          \* the calls main has made in this run, in order
    previous           \* the aggregates fetched by the latest earlier run

vars == <<file, db_name, stored, required_columns, run, pc, df, reshaped_df,
          state_data, factor_data, conn, charts, printed, error, exit, executed,
          previous>>

inputs == <<file, db_name, required_columns>>

NoError == [type |-> "None", msg |-> <<>>]

\* any exception a library call raises for a reason outside the program
LibraryError(call) == [type |-> "Exception", msg |-> <<"failure in ", call>>]

NoFile == [exists |-> FALSE, path |-> csv_path, columns |-> {}, rows |-> <<>>]

File(columns, rows) ==
    [exists |-> TRUE, path |-> csv_path, columns |-> columns, rows |-> rows]

NoAggregates ==
    [state_fetched |-> FALSE, state_data |-> <<>>,
     factor_fetched |-> FALSE, factor_data |-> <<>>]

\* the rows of a file that has only the given columns
Project(rows, columns) ==
    [i \in DOMAIN rows |-> [c \in columns \cap DOMAIN rows[i] |-> rows[i][c]]]

\* every row of state A with factor f or of state B with no factor
AllRows == {WideRow(k[1], k[2], cells) : k \in {<<"A", "f">>, <<"B", NULL>>},
                                         cells \in [DOMAIN year_columns -> CellTexts]}

SampleRows ==
    {WideRow("A", "f", <<<<"1", "5">>, <<>>, <<"5", "x">>>>),
     WideRow("A", NULL, <<<<"1", "5">>, <<"1", "5">>, <<>>>>),
     WideRow("B", "f", <<<<>>, <<"5", "x">>, <<>>>>),
     WideRow("B", "f", <<<<"1", "5">>, <<"1", "5">>, <<"1", "5">>>>)}

AllColumns == Range(main_required_columns) \cup {ExtraColumn}

\* a table left in a database file by an earlier use of it
StaleRows == <<LongRecord("B", "f", "2019", 2)>>

LongRecords == {LongRecord(s, f, y, c) : s \in States, f \in Factors,
                                         y \in Range(year_columns), c \in Counts}

\* main's own state when it is called.
Fresh ==
    /\ pc = "load_csv"
    /\ df = NoFrame
    /\ reshaped_df = <<>>
    /\ state_data = <<>>
    /\ factor_data = <<>>
    /\ conn = "none"
    /\ charts = <<>>
    /\ printed = <<>>
    /\ error = NoError
    /\ exit = "running"
    /\ executed = <<>>

Init ==
    /\ file \in {NoFile}
            \cup {File(c, Project(rows, c)) :
                    c \in SUBSET Range(main_required_columns),
                    rows \in SeqsUpTo(SampleRows, MaxFileRows)}
    /\ db_name \in {MemoryDb, FileDb}
    /\ stored \in IF db_name = MemoryDb THEN {NoTable} ELSE {NoTable, Table(StaleRows)}
    /\ required_columns = main_required_columns
    /\ previous = NoAggregates
    /\ run = 1
    /\ Fresh

\* isinstance(e, ValueError)
CatchesValueError(e) == e.type = "ValueError"

\* except Exception as e: every exception the calls raise is an Exception
Catches(e) == e.type \in {"FileNotFoundError", "ValueError", "Exception"}

\* a handler that prints the message twice
RaiseTwice(call, e) ==
    /\ executed' = Append(executed, call)
    /\ error' = e
    /\ pc' = "done"
    /\ printed' = printed \o <<<<"An error occurred: ">> \o e.msg,
                               <<"An error occurred: ">> \o e.msg>>
    /\ exit' = "normal"

\* The call raises e: control leaves the try block for the handler, which
\* prints one line; an exception the handler does not catch leaves main.
Raise(call, e) ==
    /\ executed' = Append(executed, call)
    /\ error' = e
    /\ pc' = "done"
    /\ IF Catches(e)
       THEN /\ printed' = Append(printed, <<"An error occurred: ">> \o e.msg)
            /\ exit' = "normal"
       ELSE /\ printed' = printed
            /\ exit' = "uncaught"

Return(call, next, line) ==
    /\ executed' = Append(executed, call)
    /\ printed' = Append(printed, line)
    /\ pc' = next
    /\ UNCHANGED <<error, exit>>

LoadCsv ==
    /\ pc = "load_csv"
    /\ ~load_csv(file).raised
    /\ df' = load_csv(file).value
    /\ Return("load_csv", "validate_columns", <<"Loading CSV from: ", file.path>>)
    /\ UNCHANGED <<inputs, stored, run, reshaped_df, state_data, factor_data, conn,
                   charts, previous>>

LoadCsvRaises ==
    /\ pc = "load_csv"
    /\ load_csv(file).raised
    /\ Raise("load_csv", load_csv(file).exc)
    /\ UNCHANGED <<inputs, stored, run, df, reshaped_df, state_data, factor_data, conn,
                   charts, previous>>

ValidateColumns ==
    /\ pc = "validate_columns"
    /\ ~validate_columns(df, required_columns).raised
    /\ Return("validate_columns", "reshape_data", <<"All required columns are present.">>)
    /\ UNCHANGED <<inputs, stored, run, df, reshaped_df, state_data, factor_data, conn,
                   charts, previous>>

ValidateColumnsRaises ==
    /\ pc = "validate_columns"
    /\ validate_columns(df, required_columns).raised
    /\ Raise("validate_columns", validate_columns(df, required_columns).exc)
    /\ UNCHANGED <<inputs, stored, run, df, reshaped_df, state_data, factor_data, conn,
                   charts, previous>>

ReshapeData ==
    /\ pc = "reshape_data"
    /\ reshaped_df' = reshape_data(df, id_column, factor_column, year_columns)
    /\ executed' = Append(executed, "reshape_data")
    /\ printed' = printed \o <<<<"Reshaping data from wide to long format...">>,
                               <<"Reshaped DataFrame:">>>>
    /\ pc' = "save_to_sqlite"
    /\ UNCHANGED <<inputs, stored, run, df, state_data, factor_data, conn, charts,
                   error, exit, previous>>

\* sq.connect and to_sql both succeed; the connection is returned to main.
SaveToSqlite ==
    /\ pc = "save_to_sqlite"
    /\ stored' = save_to_sqlite(reshaped_df, db_name, stored)
    /\ conn' = "open"
    /\ Return("save_to_sqlite", "fetch_data_by_state",
              <<"Saving data to SQLite database: ", db_name, ", table: ", table_name>>)
    /\ UNCHANGED <<inputs, run, df, reshaped_df, state_data, factor_data, charts,
                   previous>>

\* sq.connect raises (no connection), or to_sql raises (the connection is
\* open but never returned; the write is rolled back).
SaveToSqliteRaises ==
    /\ pc = "save_to_sqlite"
    /\ \E opened \in BOOLEAN :
          /\ conn' = IF opened THEN "open" ELSE "none"
          /\ stored' = IF opened THEN connect(db_name, stored) ELSE stored
    /\ Raise("save_to_sqlite", LibraryError("save_to_sqlite"))
    /\ UNCHANGED <<inputs, run, df, reshaped_df, state_data, factor_data, charts,
                   previous>>

FetchDataByState ==
    /\ pc = "fetch_data_by_state"
    /\ conn = "open"
    /\ state_data' = fetch_data_by_state(stored.rows)
    /\ Return("fetch_data_by_state", "plot_data_by_state",
              <<"Executing SQL query to fetch data by state...">>)
    /\ UNCHANGED <<inputs, stored, run, df, reshaped_df, factor_data, conn, charts,
                   previous>>

\* if not state_data.empty: plot_data_by_state(...)
PlotDataByState ==
    /\ pc = "plot_data_by_state"
    /\ ~empty(state_data)
    /\ charts' = Append(charts,
                        plot_data_by_state(state_data, "State", "Year", "Crime_Count"))
    /\ Return("plot_data_by_state", "fetch_data_by_factors",
              <<"Plotting line graph for crime trends by state...">>)
    /\ UNCHANGED <<inputs, stored, run, df, reshaped_df, state_data, factor_data, conn,
                   previous>>

SkipPlotDataByState ==
    /\ pc = "plot_data_by_state"
    /\ empty(state_data)
    /\ pc' = "fetch_data_by_factors"
    /\ UNCHANGED <<inputs, stored, run, df, reshaped_df, state_data, factor_data, conn,
                   charts, printed, error, exit, executed, previous>>

FetchDataByFactors ==
    /\ pc = "fetch_data_by_factors"
    /\ conn = "open"
    /\ factor_data' = fetch_data_by_factors(stored.rows)
    /\ Return("fetch_data_by_factors", "plot_bar_data_by_factors",
              <<"Executing SQL query to fetch data by socio-economic factors...">>)
    /\ UNCHANGED <<inputs, stored, run, df, reshaped_df, state_data, conn, charts,
                   previous>>

\* if not factor_data.empty: plot_bar_data_by_factors(...)
PlotBarDataByFactors ==
    /\ pc = "plot_bar_data_by_factors"
    /\ ~empty(factor_data)
    /\ charts' = Append(charts,
                        plot_bar_data_by_factors(factor_data, "Factor", "State", "Year",
                                                 "Crime_Count"))
    /\ Return("plot_bar_data_by_factors", "close",
              <<"Plotting grouped bar graph based on socio-economic factors...">>)
    /\ UNCHANGED <<inputs, stored, run, df, reshaped_df, state_data, factor_data, conn,
                   previous>>

SkipPlotBarDataByFactors ==
    /\ pc = "plot_bar_data_by_factors"
    /\ empty(factor_data)
    /\ pc' = "close"
    /\ UNCHANGED <<inputs, stored, run, df, reshaped_df, state_data, factor_data, conn,
                   charts, printed, error, exit, executed, previous>>

\* conn.close(); print("Process completed successfully.")
Close ==
    /\ pc = "close"
    /\ conn = "open"
    /\ conn' = "closed"
    /\ executed' = Append(executed, "close")
    /\ printed' = Append(printed, <<"Process completed successfully.">>)
    /\ pc' = "done"
    /\ exit' = "normal"
    /\ UNCHANGED <<inputs, stored, run, df, reshaped_df, state_data, factor_data,
                   charts, error, previous>>

\* The calls into pandas, sqlite3, matplotlib and seaborn that can raise for
\* a reason outside the program (read error, storage failure, no display
\* backend).  A renderer that raises shows no figure.
LibraryCalls ==
    {"load_csv", "reshape_data", "fetch_data_by_state", "plot_data_by_state",
     "fetch_data_by_factors", "plot_bar_data_by_factors", "close"}

LibraryRaises ==
    /\ pc \in LibraryCalls
    /\ pc = "load_csv" => file.exists
    /\ pc = "plot_data_by_state" => ~empty(state_data)
    /\ pc = "plot_bar_data_by_factors" => ~empty(factor_data)
    /\ Raise(pc, LibraryError(pc))
    /\ UNCHANGED <<inputs, stored, run, df, reshaped_df, state_data, factor_data, conn,
                   charts, previous>>

\* The call was made in this run and returned.
Completed(call) ==
    \E i \in DOMAIN executed :
        /\ executed[i] = call
        /\ i < Len(executed) \/ error = NoError

\* The script is run again: a new process, the same file, the same database.
RunAgain ==
    /\ pc = "done"
    /\ run < MaxRuns
    /\ run' = run + 1
    /\ previous' =
          [state_fetched |-> previous.state_fetched \/ Completed("fetch_data_by_state"),
           state_data |-> IF Completed("fetch_data_by_state")
                          THEN state_data ELSE previous.state_data,
           factor_fetched |-> previous.factor_fetched
                                \/ Completed("fetch_data_by_factors"),
           factor_data |-> IF Completed("fetch_data_by_factors")
                           THEN factor_data ELSE previous.factor_data]
    /\ stored' = IF db_name = MemoryDb THEN NoTable ELSE stored
    /\ pc' = "load_csv"
    /\ df' = NoFrame
    /\ reshaped_df' = <<>>
    /\ state_data' = <<>>
    /\ factor_data' = <<>>
    /\ conn' = "none"
    /\ charts' = <<>>
    /\ printed' = <<>>
    /\ error' = NoError
    /\ exit' = "running"
    /\ executed' = <<>>
    /\ UNCHANGED inputs

Next ==
    \/ LoadCsv \/ LoadCsvRaises
    \/ ValidateColumns \/ ValidateColumnsRaises
    \/ ReshapeData
    \/ SaveToSqlite \/ SaveToSqliteRaises
    \/ FetchDataByState
    \/ PlotDataByState \/ SkipPlotDataByState
    \/ FetchDataByFactors
    \/ PlotBarDataByFactors \/ SkipPlotBarDataByFactors
    \/ Close
    \/ LibraryRaises
    \/ RunAgain

Spec == Init /\ [][Next]_vars

(***************************************************************************)
(* reshape_data on every wide table of up to MaxRows rows: main up to the  *)
(* reshaping of a file that has the required columns.                      *)
(***************************************************************************)
InitReshape ==
    /\ file \in {File(Range(main_required_columns), rows) :
                    rows \in SeqsUpTo(AllRows, MaxRows)}
    /\ db_name = MemoryDb
    /\ stored = NoTable
    /\ required_columns = main_required_columns
    /\ previous = NoAggregates
    /\ run = 1
    /\ Fresh

NextReshape == LoadCsv \/ ValidateColumns \/ ReshapeData

SpecReshape == InitReshape /\ [][NextReshape]_vars

(***************************************************************************)
(* validate_columns on every set of columns and every required list of up  *)
(* to MaxRequired names, and the list of main.                             *)
(***************************************************************************)
InitValidate ==
    /\ file \in {File(c, Project(rows, c)) :
                    c \in SUBSET AllColumns, rows \in SeqsUpTo(SampleRows, 1)}
    /\ db_name = MemoryDb
    /\ stored = NoTable
    /\ required_columns \in SeqsUpTo(AllColumns, MaxRequired) \cup {main_required_columns}
    /\ previous = NoAggregates
    /\ run = 1
    /\ Fresh

NextValidate == LoadCsv \/ ValidateColumns \/ ValidateColumnsRaises

SpecValidate == InitValidate /\ [][NextValidate]_vars

(***************************************************************************)
(* The two queries on every stored table of up to MaxRecords long records: *)
(* main from the moment save_to_sqlite has returned, whatever the file     *)
(* that gave the table.                                                    *)
(***************************************************************************)
InitAggregate ==
    /\ file = File(Range(main_required_columns), <<>>)
    /\ db_name = MemoryDb
    /\ required_columns = main_required_columns
    /\ previous = NoAggregates
    /\ run = 1
    /\ pc = "fetch_data_by_state"
    /\ df = Frame(Range(main_required_columns), <<>>)
    /\ reshaped_df \in SeqsUpTo(LongRecords, MaxRecords)
    /\ stored = Table(reshaped_df)
    /\ state_data = <<>>
    /\ factor_data = <<>>
    /\ conn = "open"
    /\ charts = <<>>
    /\ printed = <<>>
    /\ error = NoError
    /\ exit = "running"
    /\ executed = <<>>

NextAggregate ==
    \/ FetchDataByState
    \/ PlotDataByState \/ SkipPlotDataByState
    \/ FetchDataByFactors

SpecAggregate == InitAggregate /\ [][NextAggregate]_vars

(***************************************************************************)
(* Properties.                                                             *)
(***************************************************************************)
\* the sum of the counts of a sequence of records
RECURSIVE Total(_)
Total(records) ==
    IF records = <<>> THEN 0
    ELSE Total(SubSeq(records, 1, Len(records) - 1)) + records[Len(records)]["Crime_Count"]

\* number of positions of seq that hold x
Occurrences(seq, x) == Cardinality({i \in DOMAIN seq : seq[i] = x})

Last(seq) == seq[Len(seq)]

Numeric(text) == text # <<>> /\ \A i \in DOMAIN text : text[i] \in Digits

\* the cells (row, year column) of the wide table that hold a number
NumericCells ==
    {c \in (DOMAIN df.rows) \X (DOMAIN year_columns) :
        Numeric(df.rows[c[1]][year_columns[c[2]]])}

RecordOfCell(c) ==
    LongRecord(df.rows[c[1]][id_column], df.rows[c[1]][factor_column],
               year_columns[c[2]], Decimal(df.rows[c[1]][year_columns[c[2]]]))

\* C1: once reshape_data has returned, the long table holds one record
\* (identity, factor, year, count) for every cell of the wide table that is
\* present and is the text of a number, and no other record: as many copies
\* of each record as there are numeric cells that give it, and none for an
\* empty or a non-numeric cell.
C1_ReshapeKeepsExactlyNumericCells ==
    Completed("reshape_data") =>
        /\ Len(reshaped_df) = Cardinality(NumericCells)
        /\ \A c \in NumericCells :
              Occurrences(reshaped_df, RecordOfCell(c)) =
                  Cardinality({d \in NumericCells : RecordOfCell(d) = RecordOfCell(c)})
        /\ \A i \in DOMAIN reshaped_df :
              \E c \in NumericCells : reshaped_df[i] = RecordOfCell(c)

\* The row A with 2019 = 15, 2020 empty, 2021 = "5x" has been reshaped to
\* the one record (A, 2019, 15).
C1_Witness ==
    /\ Completed("reshape_data")
    /\ df.rows = <<WideRow("A", "f", <<<<"1", "5">>, <<>>, <<"5", "x">>>>)>>
    /\ reshaped_df = <<LongRecord("A", "f", "2019", 15)>>

StateKeys(records) == {<<r.State, r.Year>> : r \in Range(records)}

TableKeys(rows) == {<<r[id_column], r["Year"]>> : r \in Range(rows)}

RowsOfKey(rows, k) ==
    SelectSeq(rows, LAMBDA r : r[id_column] = k[1] /\ r["Year"] = k[2])

\* C2: once fetch_data_by_state has returned, its result has one record
\* per (entity, year) key of the stored table and no key twice, each total
\* is the sum of the counts of the long records of its key, the rows ascend
\* by entity and then year, the totals are >= 0 if all counts are, and if
\* every key occurs in one long record the result is the stored records
\* (entity, year, count) themselves.
C2_FetchByStateGroupsSumsAndSorts ==
    Completed("fetch_data_by_state") =>
        /\ StateKeys(state_data) = TableKeys(stored.rows)
        /\ \A i, j \in DOMAIN state_data :
              (state_data[i].State = state_data[j].State
                 /\ state_data[i].Year = state_data[j].Year) => i = j
        /\ \A i \in DOMAIN state_data :
              state_data[i].Crime_Count =
                  Total(RowsOfKey(stored.rows, <<state_data[i].State, state_data[i].Year>>))
        /\ \A i, j \in DOMAIN state_data :
              i < j => \/ Rank(state_data[i].State) < Rank(state_data[j].State)
                       \/ /\ state_data[i].State = state_data[j].State
                          /\ Rank(state_data[i].Year) < Rank(state_data[j].Year)
        /\ (\A i \in DOMAIN stored.rows : stored.rows[i]["Crime_Count"] >= 0)
              => \A i \in DOMAIN state_data : state_data[i].Crime_Count >= 0
        /\ (\A k \in TableKeys(stored.rows) : Len(RowsOfKey(stored.rows, k)) = 1)
              => /\ Len(state_data) = Len(stored.rows)
                 /\ Range(state_data) =
                       {[State |-> r[id_column], Year |-> r["Year"],
                         Crime_Count |-> r["Crime_Count"]] : r \in Range(stored.rows)}

\* Two records of (A, 2019) and one of (B, 2019) have been aggregated to
\* (A, 2019, 4), (B, 2019, 2).
C2_Witness ==
    /\ Completed("fetch_data_by_state")
    /\ stored.rows = <<LongRecord("B", "f", "2019", 2), LongRecord("A", "f", "2019", 2),
                       LongRecord("A", NULL, "2019", 2)>>
    /\ state_data = <<[State |-> "A", Year |-> "2019", Crime_Count |-> 4],
                      [State |-> "B", Year |-> "2019", Crime_Count |-> 2]>>

Absent == {c \in Range(required_columns) : c \notin df.columns}

\* C3: once validate_columns has been called, it has raised if and only if
\* a required column is absent from the table; if it raised, the message
\* names every absent required column, in the order of the required list;
\* if it did not, main goes on and the table is as loaded.
C3_ValidateFailsIffMissingAndNamesAll ==
    (executed # <<>> /\ Last(executed) = "validate_columns") =>
        /\ (error # NoError) <=> (Absent # {})
        /\ error # NoError =>
              /\ error.type = "ValueError"
              /\ \A c \in Absent : c \in Range(error.msg)
              /\ SelectSeq(error.msg, LAMBDA t : t \in AllColumns)
                    = SelectSeq(required_columns, LAMBDA c : c \in Absent)
        /\ error = NoError =>
              /\ pc = "reshape_data"
              /\ df = Frame(file.columns, file.rows)

\* validate_columns has raised for a table that lacks two required columns.
C3_Witness ==
    /\ executed # <<>> /\ Last(executed) = "validate_columns"
    /\ error # NoError
    /\ Cardinality(Absent) >= 2

\* the calls of main's try block, in the order of the code
Calls ==
    <<"load_csv", "validate_columns", "reshape_data", "save_to_sqlite",
      "fetch_data_by_state", "plot_data_by_state", "fetch_data_by_factors",
      "plot_bar_data_by_factors", "close">>

Position(call) == CHOOSE i \in DOMAIN Calls : Calls[i] = call

Failed == error # NoError

\* the call that raised the caught exception
FailingCall ==
    IF error.type = "FileNotFoundError" THEN "load_csv"
    ELSE IF error.type = "ValueError" THEN "validate_columns"
    ELSE error.msg[2]

ErrorLines == {i \in DOMAIN printed : printed[i][1] = "An error occurred: "}

\* C4: when a call of main's try block raises, the run is over at once: the
\* raising call is the last call made, every call was made once and in the
\* order of the code (nothing retried), the last line printed names the
\* error, and main ends as a successful run ends, with nothing propagating.
C4_ErrorCaughtAtBoundary ==
    /\ \A i, j \in DOMAIN executed :
          i < j => Position(executed[i]) < Position(executed[j])
    /\ (pc = "done") <=> (exit = "normal")
    /\ pc # "done" => exit = "running" /\ ~Failed
    /\ Failed =>
          /\ pc = "done"
          /\ executed # <<>>
          /\ Last(executed) = FailingCall
          /\ printed # <<>>
          /\ Last(printed) = <<"An error occurred: ">> \o error.msg

\* conn.close() has raised, after every other call returned, and the run
\* ended normally with the error printed.
C4_Witness ==
    /\ Failed
    /\ FailingCall = "close"
    /\ Len(executed) = Len(Calls)
    /\ exit = "normal"
    /\ Last(printed) = <<"An error occurred: ", "failure in ", "close">>

HeaderOnly ==
    /\ file.exists
    /\ Range(main_required_columns) \subseteq file.columns
    /\ file.rows = <<>>

ChartKinds == {charts[i].kind : i \in DOMAIN charts}

\* C5: plot_data_by_state is called only with a non-empty state_data and
\* plot_bar_data_by_factors only with a non-empty factor_data; a file with
\* the required header and no data row gives an empty long table, empty
\* aggregates and no renderer call, and nothing in the program makes that
\* run fail.
C5_RendererOnlyOnNonEmpty ==
    /\ ("plot_data_by_state" \in Range(executed) \/ "line" \in ChartKinds)
          => state_data # <<>>
    /\ ("plot_bar_data_by_factors" \in Range(executed) \/ "bar" \in ChartKinds)
          => factor_data # <<>>
    /\ HeaderOnly =>
          /\ reshaped_df = <<>> /\ state_data = <<>> /\ factor_data = <<>>
          /\ Completed("save_to_sqlite") => stored = Table(<<>>)
          /\ charts = <<>>
          /\ "plot_data_by_state" \notin Range(executed)
          /\ "plot_bar_data_by_factors" \notin Range(executed)
          /\ Failed => error.type = "Exception"

\* A header-only file has been processed to the end: both queries ran, no
\* chart was drawn, the run succeeded.
C5_Witness ==
    /\ HeaderOnly
    /\ pc = "done" /\ ~Failed /\ exit = "normal"
    /\ Completed("fetch_data_by_state") /\ Completed("fetch_data_by_factors")
    /\ Completed("close")
    /\ charts = <<>>

\* C6: after save_to_sqlite the table holds exactly the rows of this run's
\* long table, whatever the database held before, and the aggregates a run
\* fetches are those an earlier run of the same file and database fetched.
C6_ReplaceMakesRunsIdempotent ==
    /\ Completed("save_to_sqlite") => stored = Table(reshaped_df)
    /\ (Completed("fetch_data_by_state") /\ previous.state_fetched)
          => state_data = previous.state_data
    /\ (Completed("fetch_data_by_factors") /\ previous.factor_fetched)
          => factor_data = previous.factor_data

\* The second run against a database file has fetched the same non-empty
\* aggregates as the first run.
C6_Witness ==
    /\ run = 2
    /\ db_name = FileDb
    /\ previous.state_fetched /\ previous.factor_fetched
    /\ Completed("fetch_data_by_factors")
    /\ state_data # <<>>
    /\ state_data = previous.state_data

\* C7 (as claimed): a run that opened a connection ends with the
\* connection closed, and queries it only while it is open.
C7_HandleClosedAtEnd ==
    /\ pc = "done" /\ conn # "none" => conn = "closed"
    /\ conn = "closed" => pc = "done"

\* C8 (as claimed): a run in which a call raised has shown no chart and
\* printed one line naming the error.
C8_NoChartInFailedRun ==
    Failed => /\ charts = <<>>
              /\ Cardinality(ErrorLines) = 1

RendererOf(kind) ==
    IF kind = "line" THEN "plot_data_by_state" ELSE "plot_bar_data_by_factors"

\* C8 (amended): a run in which a call raised has printed exactly one line
\* naming the error, its last, and shows only the charts of renderers that
\* returned before the raising call: none if the call is at or before
\* plot_data_by_state, never the bar chart unless the call is conn.close().
C8_OnlyEarlierChartsInFailedRun ==
    Failed =>
        /\ ErrorLines = {Len(printed)}
        /\ Last(printed) = <<"An error occurred: ">> \o error.msg
        /\ \A k \in ChartKinds : Position(RendererOf(k)) < Position(FailingCall)
        /\ Len(charts) <= 2
        /\ Position(FailingCall) <= Position("plot_data_by_state") => charts = <<>>

\* plot_bar_data_by_factors has raised after the line chart was shown.
C8_Witness ==
    /\ Failed
    /\ FailingCall = "plot_bar_data_by_factors"
    /\ ChartKinds = {"line"}
    /\ Cardinality(ErrorLines) = 1

\* C9 (as claimed): the bar chart has the state on x, the factor as hue and
\* the aggregate total, column Crime_Count, as y.
C9_BarHeightIsTotal ==
    \A i \in DOMAIN charts :
        charts[i].kind = "bar" =>
            /\ charts[i].x = "State"
            /\ charts[i].hue = "Factor"
            /\ charts[i].y = "Crime_Count"

FactorRowsOfKey(records, k) ==
    SelectSeq(records, LAMBDA r : r.State = k[1] /\ r.Year = k[2])

\* C10: once both queries have returned for the same stored table, every
\* (entity, year) total of fetch_data_by_state is the sum of the totals of
\* fetch_data_by_factors over the factors of that key, the two results have
\* the same (entity, year) keys, and each adds up to the sum of all counts
\* of the table, records without a factor included.
C10_AggregationsAgree ==
    Completed("fetch_data_by_factors") =>
        /\ StateKeys(state_data) = StateKeys(factor_data)
        /\ \A i \in DOMAIN state_data :
              state_data[i].Crime_Count =
                  Total(FactorRowsOfKey(factor_data,
                                        <<state_data[i].State, state_data[i].Year>>))
        /\ Total(state_data) = Total(stored.rows)
        /\ Total(factor_data) = Total(stored.rows)

\* Both queries have returned for a table in which a key has a record with
\* a factor and a record without.
C10_Witness ==
    /\ Completed("fetch_data_by_factors")
    /\ \E i, j \in DOMAIN stored.rows :
          /\ stored.rows[i][id_column] = stored.rows[j][id_column]
          /\ stored.rows[i]["Year"] = stored.rows[j]["Year"]
          /\ stored.rows[i][factor_column] = NULL
          /\ stored.rows[j][factor_column] # NULL
    /\ Len(factor_data) > Len(state_data)

====
